---- MODULE Spec2Model ----
(***************************************************************************)
(* Model of the trading pipeline of nautier-tradetron:                     *)
(*   app/engine/__init__.py   EventQueue (the event bus)                   *)
(*   app/engine/rules.py      RuleCondition, Rule, RuleEngine              *)
(*   app/risk/__init__.py     RiskEngine (the risk gate)                   *)
(*   app/engine/core.py       TradingEngine (the orchestrator)             *)
(*   app/execution/__init__.py  Paper / LiveFyers execution handlers       *)
(*   app/api/__init__.py      activate_kill_switch                         *)
(*                                                                         *)
(* Scheduling model.  The program runs on one asyncio event loop: a        *)
(* coroutine runs without interruption until it awaits something that is   *)
(* not ready.  One action of this model is therefore one such run: from    *)
(* the call of an operation up to its return or up to the await at which   *)
(* its task is suspended.                                                  *)
(*                                                                         *)
(* Numbers.  Prices are integers in hundredths; money amounts of the risk  *)
(* gate are small integers.                                                *)
(***************************************************************************)
EXTENDS Integers, Sequences, FiniteSets, TLC

VARIABLES
    \* ---- EventQueue (engine/__init__.py) ----
    queue,              \* self.queue: deque(maxlen=max_size), oldest first
    subscribers,        \* self.subscribers: event type -> list of handlers
    lock,               \* self.lock.locked()
    nested,             \* the publish a handler issued under the lock and waits in
    received,           \* the invocations the subscribed test callbacks recorded
    bus_call,           \* the last bus call of an outside caller and what it returned
    \* ---- TradingEngine (engine/core.py) ----
    running,            \* self.running
    execution_handler,  \* self.execution_handler
    positions,          \* self.positions: symbol -> quantity
    loop_sleeping,      \* _event_loop tasks suspended in asyncio.sleep
    loop_blocked,       \* _event_loop tasks suspended in get(), waiting for the lock
    handled,            \* history: one entry per run of _on_signal_event
    executed,           \* history: orders handed to execute_order by the engine
    \* ---- RuleEngine (engine/rules.py) ----
    rules,              \* self.rules: dict in insertion order, <<[id, rule], ...>>
    rule_call,          \* the last call of the rule engine and what it returned
    \* ---- RiskEngine (risk/__init__.py) ----
    configs,            \* self.configs
    daily_loss,         \* self.daily_loss
    trade_count,        \* self.trade_count
    ever_registered,    \* history: ids ever passed to register_strategy
    verdict,            \* history: the last direct validate_signal call
    risk_calls,         \* history: ids passed to record_trade/record_loss/reset_daily
    \* ---- orders table and kill switch (models/__init__.py, api/__init__.py) ----
    db_orders,          \* the orders table: client_order_id -> [user_id, status]
    kill_result,        \* the response of the last activate_kill_switch call
    killed,             \* history: client_order_ids a kill switch canceled
    \* ---- LiveFyersExecutionHandler (execution/__init__.py) ----
    placed,             \* history: the place_order calls made to the broker
    inflight,           \* execute_order calls suspended in asyncio.sleep(1)
    fills,              \* history: the FillEvents execute_order returned
    uuids,              \* number of client_order_ids generated so far
    paper_call,         \* the last paper execute_order call and the Fill it returned
    scheduled,          \* start() tasks start_engine created that have not begun
    stop_called         \* stop() was called since start_engine last created a task

busVars  == <<queue, subscribers, lock, nested, received, bus_call>>
engVars  == <<running, execution_handler, positions, loop_sleeping, loop_blocked,
              handled, executed, scheduled, stop_called>>
ruleVars == <<rules, rule_call>>
riskVars == <<configs, daily_loss, trade_count, ever_registered, verdict, risk_calls>>
dbVars   == <<db_orders, kill_result, killed>>
liveVars == <<placed, inflight, fills, uuids, paper_call>>
vars     == <<busVars, engVars, ruleVars, riskVars, dbVars, liveVars>>

-----------------------------------------------------------------------------
(* Bounds of the model *)

\* capacity of the bus in the model (the code's default is 10000)
MaxSize == 2
\* number of start() calls
MaxStarts == 2
\* highest value a risk counter is driven to
MaxCount == 2
\* number of activate_kill_switch calls
MaxKills == 2
\* number of live execute_order calls
MaxExec == 2
\* number of callbacks subscribed for one event type by a caller of the bus
MaxSubs == 2
\* number of invocations the test callbacks record
MaxReceived == 3
\* number of orders executed for the position ledger
MaxFills == 3

Users      == {1, 2}
Strategies == {1, 2}
Symbols    == {"SBIN", "INFY"}
Prices     == {100, 200}
RuleIds    == {1}

None == [type |-> "None"]

\* no call made yet
NoCall == [op |-> "None"]

\* dict.get(k, default)
Get(d, k, default) == IF k \in DOMAIN d THEN d[k] ELSE default

-----------------------------------------------------------------------------
(* Events: the records built at the call sites *)

MarketEvent(user_id, strategy_id, symbol, price, volume) ==
    [type |-> "MARKET", user_id |-> user_id, strategy_id |-> strategy_id,
     symbol |-> symbol, price |-> price * 100, volume |-> volume,
     bid |-> price * 99, ask |-> price * 101]

SignalEvent(user_id, strategy_id, symbol, signal) ==
    [type |-> "SIGNAL", user_id |-> user_id, strategy_id |-> strategy_id,
     symbol |-> symbol, signal |-> signal, strength |-> 80]

OrderEvent(signal) ==
    [type |-> "ORDER", user_id |-> signal.user_id, strategy_id |-> signal.strategy_id,
     symbol |-> signal.symbol, order_type |-> "MARKET", side |-> signal.signal,
     quantity |-> 10, price |-> 0, status |-> "CREATED", client_order_id |-> ""]

RiskBlockEvent(user_id, strategy_id, text, arg, signal) ==
    [type |-> "RISK_BLOCK", user_id |-> user_id, strategy_id |-> strategy_id,
     reason |-> [text |-> text, arg |-> arg], signal |-> signal]

FillEvent(order, order_id, quantity, price, commission, is_partial) ==
    [type |-> "FILL", user_id |-> order.user_id, strategy_id |-> order.strategy_id,
     symbol |-> order.symbol, order_id |-> order_id, quantity |-> quantity,
     price |-> price, commission |-> commission, is_partial |-> is_partial]

SignalEvents ==
    {SignalEvent(u, s, y, a) : u \in Users, s \in Strategies, y \in Symbols,
                               a \in {"BUY", "SELL"}}

\* the signals handed to the bus and to the gate by callers
PublishedSignals ==
    {SignalEvent(1, 1, "SBIN", "BUY"), SignalEvent(2, 1, "INFY", "SELL"),
     SignalEvent(1, 2, "INFY", "BUY"), SignalEvent(2, 2, "SBIN", "SELL")}

-----------------------------------------------------------------------------
(* Rule engine (engine/rules.py) *)

Num(v) == [kind |-> "num", val |-> v]
Key(k) == [kind |-> "key", name |-> k]

\* the flat snapshot _on_market_event builds from a market event
MarketData(event) ==
    [k \in {"price", "volume", "bid", "ask"} |->
        CASE k = "price"  -> event.price
          [] k = "volume" -> event.volume
          [] k = "bid"    -> event.bid
          [] OTHER        -> event.ask]

\* float(expr) of a string operand: <<v>>, or <<>> where it raises ValueError
Float(expr) ==
    CASE expr = "70"    -> <<70>>
      [] expr = "15000" -> <<15000>>
      [] OTHER          -> <<>>

\* _resolve_value, lines 92-97: the key looked up for a non-numeric operand;
\* the indicator format NAME(period) is rewritten to NAME_period
IndicatorKey(expr) ==
    CASE expr = "EMA(9)"  -> "EMA_9"
      [] expr = "EMA(21)" -> "EMA_21"
      [] expr = "RSI(14)" -> "RSI_14"
      [] OTHER            -> expr

\* str.upper() on the operator and action words
Upper(w) ==
    CASE w = "and"         -> "AND"
      [] w = "or"          -> "OR"
      [] w = "buy"         -> "BUY"
      [] w = "sell"        -> "SELL"
      [] w = "none"        -> "NONE"
      [] w = "cross_above" -> "CROSS_ABOVE"
      [] w = "cross_below" -> "CROSS_BELOW"
      [] OTHER             -> w

\* RuleCondition._resolve_value: a number is itself, a numeric string is its
\* value, any other string is looked up; the value found is <<v>>, and a key
\* the snapshot lacks resolves to Missing (None)
Missing == <<>>

ResolveValue(expr, data) ==
    IF expr.kind = "num" THEN <<expr.val>>
    ELSE IF Float(expr.name) # <<>> THEN Float(expr.name)
    ELSE IF IndicatorKey(expr.name) \in DOMAIN data
    THEN <<data[IndicatorKey(expr.name)]>>
    ELSE Missing

CrossAbove(left, right, data) == left > right
CrossBelow(left, right, data) == left < right

\* a condition that reads a missing operand as 0
ConditionEvaluateMissingAsZero(c, data) ==
    LET l  == ResolveValue(c.left, data)
        r  == ResolveValue(c.right, data)
        lv == IF l = Missing THEN 0 ELSE l[1]
        rv == IF r = Missing THEN 0 ELSE r[1]
        op == Upper(c.op)
    IN  CASE op = "==" -> lv = rv
          [] op = "!=" -> lv # rv
          [] op \in {"<", "CROSS_BELOW"} -> lv < rv
          [] op = "<=" -> lv <= rv
          [] op \in {">", "CROSS_ABOVE"} -> lv > rv
          [] op = ">=" -> lv >= rv
          [] OTHER     -> FALSE

\* RuleCondition.evaluate
ConditionEvaluate(c, data) ==
    LET left_val  == ResolveValue(c.left, data)
        right_val == ResolveValue(c.right, data)
        op        == Upper(c.op)
    IN  IF left_val = Missing \/ right_val = Missing THEN FALSE
        ELSE CASE op = "=="          -> left_val[1] = right_val[1]
               [] op = "!="          -> left_val[1] # right_val[1]
               [] op = "<"           -> left_val[1] < right_val[1]
               [] op = "<="          -> left_val[1] <= right_val[1]
               [] op = ">"           -> left_val[1] > right_val[1]
               [] op = ">="          -> left_val[1] >= right_val[1]
               [] op = "CROSS_ABOVE" -> CrossAbove(left_val[1], right_val[1], data)
               [] op = "CROSS_BELOW" -> CrossBelow(left_val[1], right_val[1], data)
               [] OTHER              -> FALSE

\* a rule whose AND is satisfied by any one condition
RuleEvaluateAndAsAny(rule, data) ==
    /\ rule.operator \in {"AND", "OR"}
    /\ \E i \in 1..Len(rule.conditions) : ConditionEvaluate(rule.conditions[i], data)

\* a rule whose OR needs every condition
RuleEvaluateOrAsAll(rule, data) ==
    /\ rule.conditions # <<>>
    /\ rule.operator \in {"AND", "OR"}
    /\ \A i \in 1..Len(rule.conditions) : ConditionEvaluate(rule.conditions[i], data)

\* Rule.evaluate
RuleEvaluate(rule, data) ==
    IF rule.conditions = <<>> THEN FALSE
    ELSE LET results == [i \in 1..Len(rule.conditions) |->
                            ConditionEvaluate(rule.conditions[i], data)]
         IN  CASE rule.operator = "AND" -> \A i \in DOMAIN results : results[i]
               [] rule.operator = "OR"  -> \E i \in DOMAIN results : results[i]
               [] OTHER                 -> FALSE

\* the rule sources offered to register_rule by the engine's callers
RuleSources == {"buy_above", "sell_below", "invalid json"}

\* the rule sources of the rule engine's own callers (tests/test_engine.py)
RuleJsons == {"ema_and_buy", "ema_or_sell", "rsi_ge_sell", "defaults",
              "no_left", "invalid json"}

\* json.loads raised
JSONDecodeError == [type |-> "JSONDecodeError"]

\* json.loads(rule_json): the document of each source text
JsonLoads(rule_json) ==
    CASE rule_json = "buy_above" ->
            [name |-> "buy_above",
             conditions |-> <<[left |-> Key("price"), op |-> ">", right |-> Num(15000)]>>,
             action |-> "BUY", operator |-> "AND"]
      [] rule_json = "sell_below" ->
            [name |-> "sell_below",
             conditions |-> <<[left |-> Key("price"), op |-> "<", right |-> Num(15000)],
                              [left |-> Key("EMA_9"), op |-> ">", right |-> Key("EMA_21")]>>,
             action |-> "SELL", operator |-> "OR"]
      [] rule_json = "ema_and_buy" ->
            [name |-> "EMA Crossover",
             conditions |-> <<[left |-> Key("EMA(9)"), op |-> ">", right |-> Key("EMA(21)")],
                              [left |-> Key("RSI(14)"), op |-> "<", right |-> Num(70)]>>,
             operator |-> "AND", action |-> "BUY"]
      [] rule_json = "ema_or_sell" ->
            [name |-> "EMA or RSI",
             conditions |-> <<[left |-> Key("EMA(9)"), op |-> ">", right |-> Key("EMA(21)")],
                              [left |-> Key("RSI(14)"), op |-> ">", right |-> Num(70)]>>,
             operator |-> "OR", action |-> "SELL"]
      [] rule_json = "rsi_ge_sell" ->
            [conditions |-> <<[left |-> Key("RSI(14)"), op |-> ">=", right |-> Key("70")]>>,
             operator |-> "and", action |-> "sell"]
      [] rule_json = "ema_cross_buy" ->
            [name |-> "EMA Crossover",
             conditions |-> <<[left |-> Key("EMA(9)"), op |-> "CROSS_ABOVE",
                               right |-> Key("EMA(21)")],
                              [left |-> Key("RSI(14)"), op |-> "<", right |-> Num(70)]>>,
             operator |-> "AND", action |-> "BUY"]
      [] rule_json = "ema_cross_sell" ->
            [name |-> "EMA Crossunder",
             conditions |-> <<[left |-> Key("EMA(9)"), op |-> "CROSS_BELOW",
                               right |-> Key("EMA(21)")]>>,
             operator |-> "AND", action |-> "SELL"]
      [] rule_json = "defaults" ->
            [comment |-> "every field of the rule is left out"]
      [] rule_json = "no_left" ->
            [name |-> "no left operand",
             conditions |-> <<[op |-> ">", right |-> Num(70)]>>,
             operator |-> "AND", action |-> "BUY"]
      [] OTHER -> JSONDecodeError

\* RuleEngine.parse_rule_json: the Rule of a source that json.loads and the
\* Rule constructor accept, None when either raises
ParseRuleJson(rule_json) ==
    LET data == JsonLoads(rule_json) IN
    IF data = JSONDecodeError THEN None
    ELSE LET conditions == Get(data, "conditions", <<>>) IN
         IF \E i \in 1..Len(conditions) :
                ~({"left", "op", "right"} \subseteq DOMAIN conditions[i])
         THEN None
         ELSE [name       |-> Get(data, "name", "Unnamed"),
               conditions |-> conditions,
               action     |-> Upper(Get(data, "action", "NONE")),
               operator   |-> Upper(Get(data, "operator", "AND"))]

RuleIndex(rs, rule_id) ==
    IF \E i \in 1..Len(rs) : rs[i].id = rule_id
    THEN CHOOSE i \in 1..Len(rs) : rs[i].id = rule_id
    ELSE 0

\* a registration that drops the id's rule when the source does not parse
RegisterRuleResultDropping(rs, rule_id, rule_json) ==
    LET rule == ParseRuleJson(rule_json)
        i    == RuleIndex(rs, rule_id)
    IN  IF rule = None THEN SelectSeq(rs, LAMBDA e : e.id # rule_id)
        ELSE IF i = 0 THEN Append(rs, [id |-> rule_id, rule |-> rule])
        ELSE [rs EXCEPT ![i] = [id |-> rule_id, rule |-> rule]]

\* RuleEngine.register_rule: the registry after the call
RegisterRuleResult(rs, rule_id, rule_json) ==
    LET rule == ParseRuleJson(rule_json)
        i    == RuleIndex(rs, rule_id)
    IN  IF rule = None THEN rs
        ELSE IF i = 0 THEN Append(rs, [id |-> rule_id, rule |-> rule])
        ELSE [rs EXCEPT ![i] = [id |-> rule_id, rule |-> rule]]

\* RuleEngine.evaluate
EvaluateResult(rs, rule_id, market_data) ==
    LET i == RuleIndex(rs, rule_id) IN
    IF i = 0 THEN "NONE"
    ELSE IF RuleEvaluate(rs[i].rule, market_data) THEN rs[i].rule.action
    ELSE "NONE"

\* RuleEngine.evaluate_all: <<[id, signal], ...>> in the registry's order
EvaluateAll(rs, market_data) ==
    [i \in 1..Len(rs) |->
        [id |-> rs[i].id,
         signal |-> IF RuleEvaluate(rs[i].rule, market_data) THEN "BUY" ELSE "NONE"]]

RegisterRule(rule_id, rule_json) ==
    /\ rules' = RegisterRuleResult(rules, rule_id, rule_json)
    /\ rule_call' = [op |-> "register_rule", rule_id |-> rule_id, rule_json |-> rule_json,
                     result |-> ParseRuleJson(rule_json) # None]
    /\ UNCHANGED <<busVars, engVars, riskVars, dbVars, liveVars>>

\* the indicator snapshots handed to evaluate and evaluate_all; 0 stands
\* for a key the snapshot does not hold
Indicators(ema_9, ema_21, rsi_14) ==
    LET v == [k \in {"EMA_9", "EMA_21", "RSI_14"} |->
                 CASE k = "EMA_9" -> ema_9 [] k = "EMA_21" -> ema_21 [] OTHER -> rsi_14]
    IN  [k \in {x \in DOMAIN v : v[x] # 0} |-> v[k]]

Snapshots ==
    {Indicators(a, b, c) : a \in {0, 98, 100}, b \in {0, 99}, c \in {0, 65, 70, 71}}

\* the crossover rules of the Rule and RuleCondition docstrings, and the
\* ticks they are evaluated on: EMA(9) below, above and further above EMA(21)
CrossJsons == {"ema_cross_buy", "ema_cross_sell"}
CrossSnapshots == {Indicators(a, 99, 65) : a \in {97, 98, 100, 101}}

\* the rule ids of the rule engine's own callers
TestRuleIds == {1, 2}

\* a caller's evaluate(rule_id, market_data)
Evaluate(rule_id, market_data) ==
    /\ rule_call' = [op |-> "evaluate", rule_id |-> rule_id, market_data |-> market_data,
                     result |-> EvaluateResult(rules, rule_id, market_data)]
    /\ UNCHANGED <<rules, busVars, engVars, riskVars, dbVars, liveVars>>

\* a caller's evaluate_all(market_data)
CallEvaluateAll(market_data) ==
    /\ rule_call' = [op |-> "evaluate_all", market_data |-> market_data,
                     result |-> EvaluateAll(rules, market_data)]
    /\ UNCHANGED <<rules, busVars, engVars, riskVars, dbVars, liveVars>>

-----------------------------------------------------------------------------
(* Risk gate (risk/__init__.py) *)

LossLimits  == {1, 2}
TradeLimits == {1, 2}
RiskConfigs == {[max_daily_loss |-> l, max_trades_per_day |-> t] :
                    l \in LossLimits, t \in TradeLimits}
LossAmounts == {1, 2}

Store(f, k, v) == [x \in DOMAIN f \cup {k} |-> IF x = k THEN v ELSE f[x]]

\* a gate that lets the signals of unregistered strategies pass
ValidateSignalUnregisteredPass(signal) ==
    LET strategy_id == signal.strategy_id IN
    IF strategy_id \notin DOMAIN configs THEN None
    ELSE IF daily_loss[strategy_id] >= configs[strategy_id].max_daily_loss
    THEN RiskBlockEvent(signal.user_id, strategy_id, "Daily loss limit reached: ",
                        daily_loss[strategy_id], signal)
    ELSE IF trade_count[strategy_id] >= configs[strategy_id].max_trades_per_day
    THEN RiskBlockEvent(signal.user_id, strategy_id, "Max trades per day reached: ",
                        trade_count[strategy_id], signal)
    ELSE None

\* a gate whose trade-count check is > instead of >=
ValidateSignalTradeGt(signal) ==
    LET strategy_id == signal.strategy_id IN
    IF strategy_id \notin DOMAIN configs
    THEN RiskBlockEvent(signal.user_id, strategy_id, "Strategy not registered", None, None)
    ELSE IF daily_loss[strategy_id] >= configs[strategy_id].max_daily_loss
    THEN RiskBlockEvent(signal.user_id, strategy_id, "Daily loss limit reached: ",
                        daily_loss[strategy_id], signal)
    ELSE IF trade_count[strategy_id] > configs[strategy_id].max_trades_per_day
    THEN RiskBlockEvent(signal.user_id, strategy_id, "Max trades per day reached: ",
                        trade_count[strategy_id], signal)
    ELSE None

\* a gate whose daily-loss check is > instead of >=
ValidateSignalLossGt(signal) ==
    LET strategy_id == signal.strategy_id IN
    IF strategy_id \notin DOMAIN configs
    THEN RiskBlockEvent(signal.user_id, strategy_id, "Strategy not registered", None, None)
    ELSE IF daily_loss[strategy_id] > configs[strategy_id].max_daily_loss
    THEN RiskBlockEvent(signal.user_id, strategy_id, "Daily loss limit reached: ",
                        daily_loss[strategy_id], signal)
    ELSE IF trade_count[strategy_id] >= configs[strategy_id].max_trades_per_day
    THEN RiskBlockEvent(signal.user_id, strategy_id, "Max trades per day reached: ",
                        trade_count[strategy_id], signal)
    ELSE None

\* a gate that checks the trade count before the daily loss
ValidateSignalTradeFirst(signal) ==
    LET strategy_id == signal.strategy_id IN
    IF strategy_id \notin DOMAIN configs
    THEN RiskBlockEvent(signal.user_id, strategy_id, "Strategy not registered", None, None)
    ELSE IF trade_count[strategy_id] >= configs[strategy_id].max_trades_per_day
    THEN RiskBlockEvent(signal.user_id, strategy_id, "Max trades per day reached: ",
                        trade_count[strategy_id], signal)
    ELSE IF daily_loss[strategy_id] >= configs[strategy_id].max_daily_loss
    THEN RiskBlockEvent(signal.user_id, strategy_id, "Daily loss limit reached: ",
                        daily_loss[strategy_id], signal)
    ELSE None

\* RiskEngine.validate_signal: None when the signal is allowed, else the block
ValidateSignal(signal) ==
    LET strategy_id == signal.strategy_id IN
    IF strategy_id \notin DOMAIN configs
    THEN RiskBlockEvent(signal.user_id, strategy_id, "Strategy not registered", None, None)
    ELSE IF daily_loss[strategy_id] >= configs[strategy_id].max_daily_loss
    THEN RiskBlockEvent(signal.user_id, strategy_id, "Daily loss limit reached: ",
                        daily_loss[strategy_id], signal)
    ELSE IF trade_count[strategy_id] >= configs[strategy_id].max_trades_per_day
    THEN RiskBlockEvent(signal.user_id, strategy_id, "Max trades per day reached: ",
                        trade_count[strategy_id], signal)
    ELSE None

\* RiskEngine.record_trade, as a function of the counter map
RecordTradeResult(tc, strategy_id) ==
    IF strategy_id \in DOMAIN tc THEN [tc EXCEPT ![strategy_id] = @ + 1] ELSE tc

NoteCall(strategy_id) ==
    IF strategy_id \in DOMAIN configs THEN risk_calls ELSE risk_calls \cup {strategy_id}

\* a registration that keeps the counters a strategy already has
RegisterStrategyKeepingCounters(strategy_id, config) ==
    /\ configs'     = Store(configs, strategy_id, config)
    /\ daily_loss'  = IF strategy_id \in DOMAIN daily_loss THEN daily_loss
                      ELSE Store(daily_loss, strategy_id, 0)
    /\ trade_count' = IF strategy_id \in DOMAIN trade_count THEN trade_count
                      ELSE Store(trade_count, strategy_id, 0)
    /\ ever_registered' = ever_registered \cup {strategy_id}
    /\ UNCHANGED <<verdict, risk_calls, busVars, engVars, ruleVars, dbVars, liveVars>>

RegisterStrategy(strategy_id, config) ==
    /\ configs'     = Store(configs, strategy_id, config)
    /\ daily_loss'  = Store(daily_loss, strategy_id, 0)
    /\ trade_count' = Store(trade_count, strategy_id, 0)
    /\ ever_registered' = ever_registered \cup {strategy_id}
    /\ UNCHANGED <<verdict, risk_calls, busVars, engVars, ruleVars, dbVars, liveVars>>

\* a gate that zeroes the counters of the strategy whose signal it blocks
ValidateResetting(signal) ==
    LET s == signal.strategy_id
        blocked == ValidateSignal(signal) # None /\ s \in DOMAIN configs
    IN  /\ verdict' = [signal |-> signal, result |-> ValidateSignal(signal)]
        /\ daily_loss' = IF blocked THEN [daily_loss EXCEPT ![s] = 0] ELSE daily_loss
        /\ trade_count' = IF blocked THEN [trade_count EXCEPT ![s] = 0] ELSE trade_count
        /\ UNCHANGED <<configs, ever_registered, risk_calls,
                       busVars, engVars, ruleVars, dbVars, liveVars>>

Validate(signal) ==
    /\ verdict' = [signal |-> signal, result |-> ValidateSignal(signal)]
    /\ UNCHANGED <<configs, daily_loss, trade_count, ever_registered, risk_calls,
                   busVars, engVars, ruleVars, dbVars, liveVars>>

RecordLoss(strategy_id, loss) ==
    /\ strategy_id \in DOMAIN daily_loss => daily_loss[strategy_id] + loss <= MaxCount
    /\ daily_loss' = IF strategy_id \in DOMAIN daily_loss
                     THEN [daily_loss EXCEPT ![strategy_id] = @ + loss]
                     ELSE daily_loss
    /\ risk_calls' = NoteCall(strategy_id)
    /\ UNCHANGED <<configs, trade_count, ever_registered, verdict,
                   busVars, engVars, ruleVars, dbVars, liveVars>>

RecordTrade(strategy_id) ==
    /\ strategy_id \in DOMAIN trade_count => trade_count[strategy_id] < MaxCount
    /\ trade_count' = RecordTradeResult(trade_count, strategy_id)
    /\ risk_calls' = NoteCall(strategy_id)
    /\ UNCHANGED <<configs, daily_loss, ever_registered, verdict,
                   busVars, engVars, ruleVars, dbVars, liveVars>>

\* a reset_daily that zeroes the counters of every registered strategy
ResetDailyEveryStrategy(strategy_id) ==
    /\ daily_loss' = IF strategy_id \in DOMAIN daily_loss
                     THEN [x \in DOMAIN daily_loss |-> 0] ELSE daily_loss
    /\ trade_count' = IF strategy_id \in DOMAIN daily_loss
                      THEN [x \in DOMAIN trade_count |-> 0] ELSE trade_count
    /\ risk_calls' = NoteCall(strategy_id)
    /\ UNCHANGED <<configs, ever_registered, verdict, busVars, engVars, ruleVars,
                   dbVars, liveVars>>

\* RiskEngine.reset_daily
ResetDaily(strategy_id) ==
    /\ daily_loss' = IF strategy_id \in DOMAIN daily_loss
                     THEN [daily_loss EXCEPT ![strategy_id] = 0] ELSE daily_loss
    /\ trade_count' = IF strategy_id \in DOMAIN daily_loss
                      THEN [trade_count EXCEPT ![strategy_id] = 0] ELSE trade_count
    /\ risk_calls' = NoteCall(strategy_id)
    /\ UNCHANGED <<configs, ever_registered, verdict, busVars, engVars, ruleVars,
                   dbVars, liveVars>>

-----------------------------------------------------------------------------
(* Execution inside the engine (execution/__init__.py, PaperExecutionHandler) *)

\* the random draws of one paper execution: 0 = no partial fill
\* (random.random() >= partial_fill_chance), otherwise the tenths of the
\* ordered quantity that are filled (random.uniform(0.5, 0.9))
PartialDraws == {0, 7}

\* the fill price is counted in 1/PriceScale of the order's price unit: the
\* slippage of 0.05 % is 1/2000 of the price
PriceScale == 2000

\* a paper execution whose slippage favours the taker
PaperExecuteFavourable(order, draw) ==
    LET fill_price == IF order.side = "BUY" THEN order.price * (PriceScale - 1)
                                            ELSE order.price * (PriceScale + 1)
        filled_qty == IF draw = 0 THEN order.quantity ELSE (order.quantity * draw) \div 10
    IN  FillEvent(order, order.client_order_id, filled_qty, fill_price,
                  filled_qty * fill_price, draw # 0)

\* a paper execution that never flags a partial fill
PaperExecuteUnflagged(order, draw) ==
    LET fill_price == IF order.side = "BUY" THEN order.price * (PriceScale + 1)
                                            ELSE order.price * (PriceScale - 1)
        filled_qty == IF draw = 0 THEN order.quantity ELSE (order.quantity * draw) \div 10
    IN  FillEvent(order, order.client_order_id, filled_qty, fill_price,
                  filled_qty * fill_price, FALSE)

\* PaperExecutionHandler.execute_order; the fill price is in 1/PriceScale of
\* the order's price unit and the commission, 0.0005 of the notional, in
\* 1/2000 of that again.  Quantities are multiples of 10, so that the tenths
\* of a partial fill are whole numbers.
PaperExecute(order, draw) ==
    LET fill_price == IF order.side = "BUY" THEN order.price * (PriceScale + 1)
                                            ELSE order.price * (PriceScale - 1)
        filled_qty == IF draw = 0 THEN order.quantity ELSE (order.quantity * draw) \div 10
    IN  FillEvent(order, order.client_order_id, filled_qty, fill_price,
                  filled_qty * fill_price, draw # 0)

\* self.partial_fill_chance in percent: the handler's 10, or 0 set by a caller
PartialFillChances == {0, 10}

\* the draws random can produce under a partial-fill chance
PaperDraws(chance) == IF chance = 0 THEN {0} ELSE {0, 5, 7, 9}

\* the orders handed to the paper handler
PaperOrder(user_id, strategy_id, side, quantity, price) ==
    [type |-> "ORDER", user_id |-> user_id, strategy_id |-> strategy_id,
     symbol |-> "SBIN", order_type |-> "MARKET", side |-> side, quantity |-> quantity,
     price |-> price, status |-> "CREATED", client_order_id |-> ""]
PaperOrders ==
    {PaperOrder(u, s, side, q, p) : u \in Users, s \in Strategies,
                                    side \in {"BUY", "SELL"}, q \in {10, 20},
                                    p \in {0, 100, 200}}

\* a caller's execute_order(order) on a PaperExecutionHandler
PaperExecuteOrder(order, chance, draw) ==
    /\ draw \in PaperDraws(chance)
    /\ paper_call' = [op |-> "execute_order", order |-> order, chance |-> chance,
                      fill |-> PaperExecute(order, draw)]
    /\ UNCHANGED <<placed, inflight, fills, uuids, busVars, engVars, ruleVars, riskVars,
                   dbVars>>

-----------------------------------------------------------------------------
(* Orchestrator handlers (engine/core.py).  A handler runs inside put(),  *)
(* under the bus lock.  It maps the engine state st it finds to the state  *)
(* it leaves; st.nested holds the publish it issued, if it issued one:     *)
(* that nested put() awaits the lock its own caller holds, so the handler  *)
(* is suspended there.                                                     *)

Frame(event, by, cause) == [event |-> event, by |-> by, cause |-> cause]

\* _on_market_event: one signal per rule whose decision is not NONE; the
\* first of them is published
OnMarketEvent(event, st) ==
    LET results == EvaluateAll(rules, MarketData(event))
        firing  == {i \in 1..Len(results) : results[i].signal # "NONE"}
    IN  IF firing = {} THEN st
        ELSE LET first == CHOOSE i \in firing : \A j \in firing : i <= j
                 signal == SignalEvent(event.user_id, event.strategy_id, event.symbol,
                                       results[first].signal)
             IN  [st EXCEPT !.nested = <<Frame(signal, "_on_market_event", event)>>]

\* a signal handler that creates the order whatever the gate answered
SignalOutcomeUngated(signal) == OrderEvent(signal)

\* _on_signal_event, lines 97-115: the event the handler publishes
SignalOutcome(signal) ==
    LET risk_block == ValidateSignal(signal)
    IN  IF risk_block # None THEN risk_block ELSE OrderEvent(signal)

\* _on_signal_event
OnSignalEvent(event, st) ==
    LET out == SignalOutcome(event)
    IN  [st EXCEPT !.nested  = <<Frame(out, "_on_signal_event", event)>>,
                   !.handled = Append(@, [signal  |-> event,
                                          allowed |-> ValidateSignal(event) = None,
                                          out     |-> out])]

\* _on_order_event
OnOrderEvent(event, st, draw) ==
    IF execution_handler = "None" THEN st
    ELSE [st EXCEPT !.executed = Append(@, event),
                    !.nested   = <<Frame(PaperExecute(event, draw), "_on_order_event",
                                         event)>>]

\* _on_fill_event
OnFillEvent(event, st) ==
    [st EXCEPT !.positions   = [@ EXCEPT ![event.symbol] = @ + event.quantity],
               !.trade_count = RecordTradeResult(@, event.strategy_id)]

\* the callbacks a caller of the bus subscribes (tests/test_engine.py): each
\* records the event it is invoked with; failing_callback then raises
TestCallbacks == {"callback", "callback_2", "failing_callback"}

OnTestCallback(callback, event, st) ==
    [st EXCEPT !.received = Append(@, [callback |-> callback, event |-> event]),
               !.raised   = (callback = "failing_callback")]

Handle(callback, event, st, draw) ==
    CASE callback = "_on_market_event" -> OnMarketEvent(event, st)
      [] callback = "_on_signal_event" -> OnSignalEvent(event, st)
      [] callback = "_on_order_event"  -> OnOrderEvent(event, st, draw)
      [] callback = "_on_fill_event"   -> OnFillEvent(event, st)
      [] callback \in TestCallbacks    -> OnTestCallback(callback, event, st)

\* a put() without the except clause: the exception leaves the loop
Uncaught(st) == st

\* EventQueue.put, lines 32-35: an exception of the callback is caught and logged
Caught(st) == [st EXCEPT !.raised = FALSE]

\* a put() that invokes the callbacks of every event type
CallbacksOfAllTypes(subs, event) ==
    subs["MARKET"] \o subs["SIGNAL"] \o subs["ORDER"] \o subs["FILL"] \o subs["RISK_BLOCK"]

\* EventQueue.put, lines 30-31: the callbacks subscribed for the event's type
Callbacks(subs, event) == subs[event.type]

\* EventQueue.put, lines 30-35: the callbacks of the event's type in
\* subscription order, up to the first one that is suspended (or, were an
\* exception not caught, up to the one that raised it)
RECURSIVE RunCallbacks(_, _, _, _)
RunCallbacks(callbacks, event, st, draw) ==
    IF callbacks = <<>> \/ st.nested # <<>> \/ st.raised THEN st
    ELSE RunCallbacks(Tail(callbacks), event,
                      Caught(Handle(Head(callbacks), event, st, draw)), draw)

\* a deque without maxlen
AppendUnbounded(q, event) == Append(q, event)

\* deque(maxlen=max_size).append
AppendBounded(q, event) ==
    IF Len(q) >= MaxSize THEN Append(Tail(q), event) ELSE Append(q, event)

EventTypes == {"MARKET", "SIGNAL", "ORDER", "FILL", "RISK_BLOCK"}

\* TradingEngine._subscribe_to_events
SubscribeToEvents(subs) ==
    [t \in EventTypes |->
        CASE t = "MARKET" -> Append(subs[t], "_on_market_event")
          [] t = "SIGNAL" -> Append(subs[t], "_on_signal_event")
          [] t = "FILL"   -> Append(subs[t], "_on_fill_event")
          [] OTHER        -> subs[t]]

\* EventQueue.put called by a task that holds no lock.  When the lock is
\* taken the call is suspended in acquire() and changes nothing.
PutState(event, draw) ==
    RunCallbacks(Callbacks(subscribers, event), event,
                 [positions |-> positions, trade_count |-> trade_count,
                  handled |-> handled, executed |-> executed,
                  received |-> received, raised |-> FALSE, nested |-> <<>>], draw)

Put(event, draw) ==
    /\ ~lock
    /\ LET st == PutState(event, draw)
       IN  /\ queue'       = AppendBounded(queue, event)
           /\ lock'        = (st.nested # <<>>)
           /\ nested'      = st.nested
           /\ received'    = st.received
           /\ positions'   = st.positions
           /\ trade_count' = st.trade_count
           /\ handled'     = st.handled
           /\ executed'    = st.executed
    /\ UNCHANGED <<subscribers, running, execution_handler, loop_sleeping, loop_blocked,
                   scheduled, stop_called, ruleVars, configs, daily_loss, ever_registered, verdict, risk_calls,
                   dbVars, liveVars>>

\* TradingEngine.inject_market_data
InjectMarketData(symbol, price, volume, user_id, strategy_id) ==
    /\ \E draw \in PartialDraws :
           Put(MarketEvent(user_id, strategy_id, symbol, price, volume), draw)
    /\ UNCHANGED bus_call

\* event_queue.put(signal) by a caller outside the engine
PublishSignal(signal) ==
    /\ \E draw \in PartialDraws : Put(signal, draw)
    /\ UNCHANGED bus_call

\* EventQueue.get: the queue after the call
GetResult(q) == IF Len(q) > 0 THEN Tail(q) ELSE q

\* a get() that pops the newest event
GetEventNewest(q) == IF Len(q) > 0 THEN q[Len(q)] ELSE None

\* EventQueue.get: the event returned, None on an empty queue
GetEvent(q) == IF Len(q) > 0 THEN Head(q) ELSE None

\* the events, event types and subscriptions of a caller that uses the bus
\* on its own (tests/test_engine.py)
BusEvents == {SignalEvent(1, 1, "SBIN", "BUY"), SignalEvent(2, 1, "INFY", "SELL"),
              MarketEvent(1, 1, "SBIN", 100, 1000)}
BusEventTypes == {"SIGNAL", "MARKET"}

\* EventQueue.subscribe
Subscribe(event_type, callback) ==
    /\ Len(subscribers[event_type]) < MaxSubs
    /\ subscribers' = [subscribers EXCEPT ![event_type] = Append(@, callback)]
    /\ bus_call' = [op |-> "subscribe", event_type |-> event_type, callback |-> callback]
    /\ UNCHANGED <<queue, lock, nested, received, engVars, ruleVars, riskVars,
                   dbVars, liveVars>>

\* await queue.put(event) by a caller: raised tells whether the call ended
\* with an exception
Publish(event) ==
    /\ Len(received) + Len(subscribers[event.type]) <= MaxReceived
    /\ Put(event, 0)
    /\ bus_call' = [op |-> "put", event |-> event, raised |-> PutState(event, 0).raised]

\* await queue.get() by a caller
Consume ==
    /\ ~lock
    /\ queue' = GetResult(queue)
    /\ bus_call' = [op |-> "get", result |-> GetEvent(queue)]
    /\ UNCHANGED <<subscribers, lock, nested, received, engVars, ruleVars, riskVars,
                   dbVars, liveVars>>

\* the orders executed for the position ledger
LedgerOrders ==
    {PaperOrder(1, s, side, 10, p) : s \in Strategies, side \in {"BUY", "SELL"},
                                     p \in {100, 200}}

\* _on_order_event(order) called by the execution boundary (the bus has no
\* subscription that invokes it): the order is executed and the Fill is
\* published, which runs the FILL subscribers
HandleOrder(order, draw) ==
    /\ Get(bus_call, "n", 0) < MaxFills
    /\ execution_handler # "None"
    /\ Put(PaperExecute(order, draw), draw)
    /\ bus_call' = [op |-> "put_fill", n |-> Get(bus_call, "n", 0) + 1,
                    order |-> order, event |-> PaperExecute(order, draw),
                    prev |-> IF bus_call.op = "put_fill"
                             THEN [order |-> bus_call.order, event |-> bus_call.event]
                             ELSE None]

\* _on_signal_event(signal) awaited by a caller that is not inside a put():
\* the gate is asked and the RiskBlockEvent or the new OrderEvent is published
HandleSignal(signal, draw) ==
    /\ Put(SignalOutcome(signal), draw)
    /\ bus_call' = [op |-> "put_outcome", n |-> Get(bus_call, "n", 0),
                    signal |-> signal, event |-> SignalOutcome(signal)]

\* TradingEngine.start, up to the first await that suspends it: the sleep
\* of the first loop iteration, or the get() that finds the lock taken
StartTask ==
    /\ Len(subscribers["MARKET"]) < MaxStarts
    /\ running' = TRUE
    /\ execution_handler' = "PaperExecutionHandler"
    /\ subscribers' = SubscribeToEvents(subscribers)
    /\ IF lock
       THEN /\ loop_blocked' = loop_blocked + 1
            /\ UNCHANGED <<queue, loop_sleeping>>
       ELSE /\ queue' = GetResult(queue)
            /\ loop_sleeping' = loop_sleeping + 1
            /\ UNCHANGED loop_blocked
    /\ UNCHANGED <<lock, nested, received, bus_call, positions, handled, executed,
                   ruleVars, riskVars, dbVars, liveVars>>

\* start() awaited by its caller
Start ==
    /\ StartTask
    /\ UNCHANGED <<scheduled, stop_called>>

\* start_engine: asyncio.create_task(engine.start()); the task has not run
\* when start_engine returns
StartEngine ==
    /\ scheduled + Len(subscribers["MARKET"]) < MaxStarts
    /\ scheduled' = scheduled + 1
    /\ stop_called' = FALSE
    /\ UNCHANGED <<busVars, running, execution_handler, positions, loop_sleeping,
                   loop_blocked, handled, executed, ruleVars, riskVars, dbVars, liveVars>>

\* the event loop runs a task start_engine created
ScheduledStart ==
    /\ scheduled > 0
    /\ StartTask
    /\ scheduled' = scheduled - 1
    /\ UNCHANGED stop_called

\* TradingEngine.stop
Stop ==
    /\ running' = FALSE
    /\ stop_called' = TRUE
    /\ UNCHANGED <<busVars, execution_handler, positions, loop_sleeping, loop_blocked,
                   handled, executed, scheduled, ruleVars, riskVars, dbVars, liveVars>>

\* TradingEngine._event_loop: a task wakes from its sleep, tests self.running
\* and either leaves the loop or calls get() and sleeps again
EventLoop ==
    /\ loop_sleeping > 0
    /\ IF ~running
       THEN /\ loop_sleeping' = loop_sleeping - 1
            /\ UNCHANGED <<queue, loop_blocked>>
       ELSE IF lock
       THEN /\ loop_sleeping' = loop_sleeping - 1
            /\ loop_blocked' = loop_blocked + 1
            /\ UNCHANGED queue
       ELSE /\ queue' = GetResult(queue)
            /\ UNCHANGED <<loop_sleeping, loop_blocked>>
    /\ UNCHANGED <<subscribers, lock, nested, received, bus_call, running,
                   execution_handler, positions, handled, executed, scheduled,
                   stop_called, ruleVars, riskVars,
                   dbVars, liveVars>>

-----------------------------------------------------------------------------
(* Orders table and kill switch (models/__init__.py, api/__init__.py) *)

OrderStatus == {"CREATED", "VALIDATED", "SENT", "ACK", "PARTIAL",
                "FILLED", "REJECTED", "CANCELED"}

\* the client_order_ids of the rows of the orders table
ClientOrderIds == {"c1", "c2", "c3"}

\* a kill switch whose status filter leaves out PARTIAL
KillSwitchActiveNoPartial(db, user_id) ==
    {c \in DOMAIN db : /\ db[c].user_id = user_id
                       /\ db[c].status \in {"CREATED", "VALIDATED", "SENT", "ACK"}}

\* a kill switch that selects the user's rows whatever their status
KillSwitchActiveAnyStatus(db, user_id) ==
    {c \in DOMAIN db : db[c].user_id = user_id}

\* activate_kill_switch, lines 250-253: the rows the query selects
KillSwitchActive(db, user_id) ==
    {c \in DOMAIN db : /\ db[c].user_id = user_id
                       /\ db[c].status \in {"CREATED", "VALIDATED", "SENT", "ACK",
                                            "PARTIAL"}}

\* the persistence collaborator stores an order row (client_order_id is unique)
DbInsert(c, user_id, status) ==
    /\ c \notin DOMAIN db_orders
    /\ db_orders' = Store(db_orders, c, [user_id |-> user_id, status |-> status])
    /\ UNCHANGED <<kill_result, killed, busVars, engVars, ruleVars, riskVars, liveVars>>

\* activate_kill_switch
ActivateKillSwitch(user_id) ==
    /\ (IF kill_result = None THEN 0 ELSE kill_result.call) < MaxKills
    /\ LET active_orders == KillSwitchActive(db_orders, user_id)
       IN  /\ db_orders' = [c \in DOMAIN db_orders |->
                               IF c \in active_orders
                               THEN [db_orders[c] EXCEPT !.status = "CANCELED"]
                               ELSE db_orders[c]]
           /\ kill_result' = [status |-> "kill_switch_activated",
                              orders_cancelled |-> Cardinality(active_orders),
                              user_id |-> user_id,
                              call |-> IF kill_result = None THEN 1
                                       ELSE kill_result.call + 1]
           /\ killed' = killed \cup active_orders
    /\ UNCHANGED <<busVars, engVars, ruleVars, riskVars, liveVars>>

-----------------------------------------------------------------------------
(* Live execution (execution/__init__.py, LiveFyersExecutionHandler) and   *)
(* the broker client (broker/__init__.py).  What the broker answers is not *)
(* decided by this program: every answer is possible.                      *)

\* the order_<uuid> ids generated for orders that carry none
GeneratedId(n) ==
    CASE n = 1 -> "order_1" [] n = 2 -> "order_2" [] n = 3 -> "order_3"
      [] OTHER -> "order_4"

\* the orders handed to execute_order
LiveOrder(user_id, side, client_order_id) ==
    [type |-> "ORDER", user_id |-> user_id, strategy_id |-> 1, symbol |-> "SBIN",
     order_type |-> "MARKET", side |-> side, quantity |-> 10, price |-> 100,
     status |-> "CREATED", client_order_id |-> client_order_id]
LiveOrders == {LiveOrder(1, "BUY", "c1"), LiveOrder(2, "SELL", "c2"),
               LiveOrder(1, "BUY", "")}

\* FyersClient.place_order: the answers of the broker
PlaceResponses == {"success", "error"}

\* FyersClient.get_order_status: the answers of the broker
StatusResponses ==
    {[status |-> "FILLED", filledqty |-> 10, price |-> 101],
     [status |-> "PARTIAL", filledqty |-> 4, price |-> 101],
     [status |-> "PENDING", filledqty |-> 0],
     [status |-> "error", message |-> "Not authenticated"]}

\* execute_order, lines 93-117: the id is generated if absent, the order is
\* placed, and on success the call sleeps before it asks for the status
\* an execute_order that goes on whatever place_order answered
PlaceSucceededAlways(response) == TRUE

\* execute_order, line 107: result.get("status") == "success"
PlaceSucceeded(response) == response = "success"

LivePlace(order, response) ==
    /\ Len(placed) < MaxExec
    /\ LET generate == order.client_order_id = ""
           id       == IF generate THEN GeneratedId(uuids + 1) ELSE order.client_order_id
           sent     == [order EXCEPT !.client_order_id = id]
       IN  /\ uuids' = IF generate THEN uuids + 1 ELSE uuids
           /\ placed' = Append(placed, [client_order_id |-> id,
                                        after_kill |-> id \in killed,
                                        response |-> response,
                                        status |-> sent.status,
                                        returned |-> IF PlaceSucceeded(response)
                                                     THEN "pending" ELSE "None"])
           /\ inflight' = IF ~PlaceSucceeded(response) THEN inflight
                          ELSE inflight \cup {[order |-> sent,
                                                broker_order_id |-> Len(placed) + 1]}
    /\ UNCHANGED <<fills, paper_call, busVars, engVars, ruleVars, riskVars, dbVars>>

\* execute_order, lines 119-139: the FillEvent built from the status answer
LiveFill(order, broker_order_id, status) ==
    LET filled_qty == Get(status, "filledqty", 0)
        fill_price == Get(status, "price", order.price)
    IN  FillEvent(order, broker_order_id, filled_qty, fill_price,
                  filled_qty * fill_price, Get(status, "status", "") = "PARTIAL")

\* execute_order, lines 119-139: the call resumes, asks for the status and
\* returns the fill
LivePoll(call, status) ==
    /\ call \in inflight
    /\ inflight' = inflight \ {call}
    /\ fills' = Append(fills, [fill |-> LiveFill(call.order, call.broker_order_id, status),
                               client_order_id |-> call.order.client_order_id,
                               status |-> call.order.status,
                               observed |-> status,
                               ordered |-> call.order.quantity,
                               after_kill |-> call.order.client_order_id \in killed])
    /\ UNCHANGED <<placed, uuids, paper_call, busVars, engVars, ruleVars, riskVars,
                   dbVars>>

-----------------------------------------------------------------------------
(* The engine: construction and the operations of its callers *)

Init ==
    /\ queue = <<>>
    /\ subscribers = [t \in EventTypes |-> <<>>]
    /\ lock = FALSE
    /\ nested = <<>>
    /\ received = <<>>
    /\ bus_call = NoCall
    /\ running = FALSE
    /\ execution_handler = "None"
    /\ positions = [y \in Symbols |-> 0]
    /\ loop_sleeping = 0
    /\ loop_blocked = 0
    /\ handled = <<>>
    /\ executed = <<>>
    /\ rules = <<>>
    /\ rule_call = NoCall
    /\ configs = <<>>
    /\ daily_loss = <<>>
    /\ trade_count = <<>>
    /\ ever_registered = {}
    /\ verdict = None
    /\ risk_calls = {}
    /\ db_orders = <<>>
    /\ kill_result = None
    /\ killed = {}
    /\ placed = <<>>
    /\ inflight = {}
    /\ fills = <<>>
    /\ uuids = 0
    /\ paper_call = NoCall
    /\ scheduled = 0
    /\ stop_called = FALSE

\* the market observations injected: (user, strategy) pairs, one symbol
Injected == {<<1, 1>>, <<2, 2>>}

\* the risk configuration the engine's strategy 1 is registered with
EngineConfig == [max_daily_loss |-> 2, max_trades_per_day |-> 1]

Next ==
    \/ Start
    \/ Stop
    \/ EventLoop
    \/ \E p \in Prices, us \in Injected :
           InjectMarketData("SBIN", p, 1000, us[1], us[2])
    \/ \E signal \in PublishedSignals : PublishSignal(signal)
    \/ \E r \in RuleIds, src \in RuleSources : RegisterRule(r, src)
    \/ RegisterStrategy(1, EngineConfig)
    \/ RecordTrade(1)
    \/ RecordLoss(1, 1)
    \/ ResetDaily(1)

Spec == Init /\ [][Next]_vars

\* The event loop runs every task that is ready: a loop task whose sleep is
\* over is resumed.  Callers outside the engine are under no obligation.
FairSpec == Spec /\ WF_vars(EventLoop)

-----------------------------------------------------------------------------
(* Claims about the orchestrated pipeline (Spec, FairSpec) *)

\* the publishes of handlers that are issued and wait for the bus lock
Pending == {nested[i] : i \in 1..Len(nested)}
Enqueued(type) == {queue[i] : i \in {j \in 1..Len(queue) : queue[j].type = type}}
Handled == {handled[k] : k \in 1..Len(handled)}

CarriesSignal(order, signal) ==
    /\ order.user_id = signal.user_id
    /\ order.strategy_id = signal.strategy_id
    /\ order.symbol = signal.symbol
    /\ order.side = signal.signal

\* C1: an OrderEvent is handed to the bus (enqueued, or passed to put() by a
\* handler) only by _on_signal_event handling a signal that validate_signal
\* allowed, and it carries that signal's user_id, strategy_id, symbol and side.
C1_OrderOnlyAfterRiskPass ==
    /\ \A f \in Pending :
          f.event.type = "ORDER" =>
             /\ f.by = "_on_signal_event"
             /\ f.cause.type = "SIGNAL"
             /\ CarriesSignal(f.event, f.cause)
             /\ \E h \in Handled : h.signal = f.cause /\ h.allowed /\ h.out = f.event
    /\ \A o \in Enqueued("ORDER") :
          \E h \in Handled : h.allowed /\ h.out = o /\ CarriesSignal(o, h.signal)

\* C1 witness: user 2's SELL signal for strategy 1 passed the gate and its
\* order was handed to the bus
C1_Witness ==
    \E f \in Pending :
        /\ f.event.type = "ORDER" /\ f.event.side = "SELL"
        /\ f.event.user_id = 2 /\ f.event.strategy_id = 1 /\ f.event.symbol = "INFY"
        /\ 1 \in DOMAIN configs

\* C2: a handler that publishes during publish is never left waiting: no
\* put() issued by a handler waits for the lock that the put() which invoked
\* the handler holds.  (The waiting task is the only one that could release
\* that lock, so a state that violates this is a deadlock of the bus.)
C2_HandlerPublishCompletes == ~(lock /\ nested # <<>>)

\* C3: every order the orchestrator issues is eventually handed to
\* execute_order (and so can lead to a Fill).
OrderIssued == \E h \in Handled : h.allowed
OrderExecuted ==
    \E h \in Handled : h.allowed /\ \E j \in 1..Len(executed) : executed[j] = h.out
C3_OrderLeadsToExecution == OrderIssued ~> OrderExecuted

\* C4: every handled signal has exactly one downstream event on the bus, the
\* RiskBlockEvent when the gate blocked it and the OrderEvent when it allowed it.
C4_ExactlyOneDownstream ==
    \A h \in Handled :
        /\ h.out.type = (IF h.allowed THEN "ORDER" ELSE "RISK_BLOCK")
        /\ Cardinality({i \in 1..Len(queue) : queue[i] = h.out}) = 1

-----------------------------------------------------------------------------
(* The risk gate called directly (RiskSpec) *)

RiskNext ==
    \/ \E s \in Strategies, c \in RiskConfigs : RegisterStrategy(s, c)
    \/ \E signal \in PublishedSignals : Validate(signal)
    \/ \E s \in Strategies : RecordTrade(s)
    \/ \E s \in Strategies, l \in LossAmounts : RecordLoss(s, l)
    \/ \E s \in Strategies : ResetDaily(s)

RiskSpec == Init /\ [][RiskNext]_vars

Blocked(result) == result # None /\ result.type = "RISK_BLOCK"
NotRegistered == [text |-> "Strategy not registered", arg |-> None]

\* C8: a signal of a strategy id that was never registered is blocked with
\* the reason "Strategy not registered", whatever was recorded or reset for it.
C8_UnregisteredBlocked ==
    /\ \A signal \in SignalEvents :
          signal.strategy_id \notin ever_registered =>
             /\ Blocked(ValidateSignal(signal))
             /\ ValidateSignal(signal).reason = NotRegistered
    /\ (verdict # None /\ verdict.signal.strategy_id \notin ever_registered) =>
          (Blocked(verdict.result) /\ verdict.result.reason = NotRegistered)

\* C8 witness: validate_signal answered for an id that was never registered
\* and for which a counter operation had been called, while another
\* strategy is registered
C8_Witness ==
    /\ verdict # None
    /\ verdict.signal.strategy_id \notin ever_registered
    /\ verdict.signal.strategy_id \in risk_calls
    /\ verdict.result.reason = NotRegistered
    /\ ever_registered # {}

\* C9: a signal of a registered strategy whose trade_count has reached
\* max_trades_per_day is blocked.
C9_TradeLimitBlocks ==
    \A signal \in SignalEvents :
        LET s == signal.strategy_id IN
        (s \in DOMAIN configs /\ trade_count[s] >= configs[s].max_trades_per_day)
            => Blocked(ValidateSignal(signal))

\* C9 witness: validate_signal blocked a signal whose strategy's trade_count
\* just equals its limit while its daily loss is below the loss limit
C9_Witness ==
    /\ verdict # None
    /\ LET s == verdict.signal.strategy_id IN
         /\ s \in DOMAIN configs
         /\ trade_count[s] = configs[s].max_trades_per_day
         /\ daily_loss[s] < configs[s].max_daily_loss
         /\ verdict.result = ValidateSignal(verdict.signal)
         /\ Blocked(verdict.result)
         /\ verdict.result.reason.text = "Max trades per day reached: "

\* C10: a signal of a registered strategy whose daily_loss has reached
\* max_daily_loss is blocked.
C10_LossLimitBlocks ==
    \A signal \in SignalEvents :
        LET s == signal.strategy_id IN
        (s \in DOMAIN configs /\ daily_loss[s] >= configs[s].max_daily_loss)
            => Blocked(ValidateSignal(signal))

\* C10 witness: validate_signal blocked a signal whose strategy's daily_loss
\* just equals its limit while its trade_count is below the trade limit
C10_Witness ==
    /\ verdict # None
    /\ LET s == verdict.signal.strategy_id IN
         /\ s \in DOMAIN configs
         /\ daily_loss[s] = configs[s].max_daily_loss
         /\ trade_count[s] < configs[s].max_trades_per_day
         /\ verdict.result = ValidateSignal(verdict.signal)
         /\ Blocked(verdict.result)
         /\ verdict.result.reason.text = "Daily loss limit reached: "

-----------------------------------------------------------------------------
(* The orders table under the kill switch (KillSpec) *)

KillNext ==
    \/ \E c \in ClientOrderIds, u \in Users, st \in OrderStatus : DbInsert(c, u, st)
    \/ \E u \in Users : ActivateKillSwitch(u)

KillSpec == Init /\ [][KillNext]_vars

KillCalls == IF kill_result = None THEN 0 ELSE kill_result.call

\* the rows of a user that the claim calls active
ActiveRows(user_id) ==
    {c \in DOMAIN db_orders :
        /\ db_orders[c].user_id = user_id
        /\ db_orders[c].status \in {"CREATED", "VALIDATED", "SENT", "ACK", "PARTIAL"}}

\* C5: a step of activate_kill_switch for a user leaves every order of that
\* user that was CREATED, VALIDATED, SENT, ACK or PARTIAL before the step
\* CANCELED, and returns the number of those orders.
C5_KillSwitchCancelsActive ==
    [][ KillCalls' # KillCalls =>
          /\ \A c \in ActiveRows(kill_result'.user_id) :
                db_orders'[c].status = "CANCELED"
          /\ kill_result'.orders_cancelled =
                Cardinality(ActiveRows(kill_result'.user_id)) ]_vars

\* C5 witness: a kill switch canceled two orders of user 1, one of them
\* PARTIAL before, and no active order of user 1 is left, while an order of
\* user 2 is still active
C5_Witness ==
    /\ kill_result # None
    /\ kill_result.user_id = 1
    /\ kill_result.orders_cancelled = 2
    /\ Cardinality(killed) = 2
    /\ ActiveRows(1) = {}
    /\ ActiveRows(2) # {}

-----------------------------------------------------------------------------
(* Live execution beside the orders table and the kill switch (ExecSpec) *)

\* the rows stored for the orders that are executed: both are SENT
ExecRows == {<<"c1", 1>>, <<"c2", 2>>}

ExecNext ==
    \/ \E row \in ExecRows : DbInsert(row[1], row[2], "SENT")
    \/ \E u \in Users : ActivateKillSwitch(u)
    \/ \E order \in LiveOrders, response \in PlaceResponses : LivePlace(order, response)
    \/ \E call \in inflight, status \in StatusResponses : LivePoll(call, status)

ExecSpec == Init /\ [][ExecNext]_vars

\* C6: once a kill switch has canceled an order, that order is not placed
\* with the broker any more and no Fill is returned for it.
C6_KillHaltsOutstandingWork ==
    /\ \A i \in 1..Len(placed) : ~placed[i].after_kill
    /\ \A i \in 1..Len(fills) : ~fills[i].after_kill

\* C7: live execution returns at most one Fill per client_order_id, however
\* often execute_order is called with it.
C7_LiveIdempotent ==
    \A c \in {fills[i].client_order_id : i \in 1..Len(fills)} :
        Cardinality({i \in 1..Len(fills) : fills[i].client_order_id = c}) <= 1

\* C20: when place_order does not answer success, execute_order returns None
\* (the Rejected outcome): no status lookup is pending for that placement, no
\* Fill carries its broker order id, and the call placed the order only once.
C20_RejectedOnPlaceFailure ==
    /\ [](\A i \in 1..Len(placed) :
             placed[i].response # "success" =>
                /\ placed[i].returned = "None"
                /\ \A call \in inflight : call.broker_order_id # i
                /\ \A j \in 1..Len(fills) : fills[j].fill.order_id # i)
    /\ [][Len(placed') <= Len(placed) + 1]_vars

\* C20 witness: a placement was answered with an error and returned None,
\* while another placement succeeded and returned its Fill
C20_Witness ==
    /\ \E i \in 1..Len(placed) :
          placed[i].response = "error" /\ placed[i].returned = "None"
    /\ \E j \in 1..Len(fills) : placed[fills[j].fill.order_id].response = "success"

-----------------------------------------------------------------------------
(* The rule engine called directly (RuleSpec) *)

RuleNext ==
    \/ \E r \in TestRuleIds, src \in RuleJsons : RegisterRule(r, src)
    \/ \E r \in TestRuleIds, d \in Snapshots : Evaluate(r, d)
    \/ \E d \in Snapshots : CallEvaluateAll(d)

RuleSpec == Init /\ [][RuleNext]_vars

Registered == {rules[i] : i \in 1..Len(rules)}
RuleOf(rs, rule_id) == IF RuleIndex(rs, rule_id) = 0 THEN None
                       ELSE rs[RuleIndex(rs, rule_id)].rule

\* what it means for a snapshot to satisfy a condition with one of the six
\* comparison operators: both operands have a value and the relation holds
Compare(op, l, r) ==
    CASE op = "==" -> l = r
      [] op = "!=" -> l # r
      [] op = "<"  -> l < r
      [] op = "<=" -> l <= r
      [] op = ">"  -> l > r
      [] op = ">=" -> l >= r
Satisfies(c, d) ==
    LET l == ResolveValue(c.left, d)
        r == ResolveValue(c.right, d)
    IN  l # Missing /\ r # Missing /\ Compare(Upper(c.op), l[1], r[1])
SatisfiedConditions(rule, d) ==
    {i \in 1..Len(rule.conditions) : Satisfies(rule.conditions[i], d)}

\* C11: for every registered AND rule with at least one condition and every
\* snapshot, evaluate returns the rule's action when the snapshot satisfies
\* every condition and NONE when it violates one.
C11_AndRuleEvaluation ==
    \A e \in Registered :
        (e.rule.operator = "AND" /\ e.rule.conditions # <<>>) =>
            \A d \in Snapshots :
                EvaluateResult(rules, e.id, d) =
                    IF SatisfiedConditions(e.rule, d) = DOMAIN e.rule.conditions
                    THEN e.rule.action ELSE "NONE"

\* C11 witness: evaluate answered BUY for the two-condition AND rule of the
\* test, on a snapshot that satisfies both conditions
C11_Witness ==
    /\ rule_call.op = "evaluate"
    /\ RuleOf(rules, rule_call.rule_id) # None
    /\ RuleOf(rules, rule_call.rule_id).operator = "AND"
    /\ Len(RuleOf(rules, rule_call.rule_id).conditions) = 2
    /\ SatisfiedConditions(RuleOf(rules, rule_call.rule_id), rule_call.market_data) = {1, 2}
    /\ rule_call.result = "BUY"

\* C12: for every registered OR rule and every snapshot, evaluate returns the
\* rule's action when the snapshot satisfies at least one condition and NONE
\* when it satisfies none.
C12_OrRuleEvaluation ==
    \A e \in Registered :
        e.rule.operator = "OR" =>
            \A d \in Snapshots :
                EvaluateResult(rules, e.id, d) =
                    IF SatisfiedConditions(e.rule, d) # {}
                    THEN e.rule.action ELSE "NONE"

\* C12 witness: evaluate answered SELL for the OR rule of the test on a
\* snapshot that satisfies only its first condition
C12_Witness ==
    /\ rule_call.op = "evaluate"
    /\ RuleOf(rules, rule_call.rule_id) # None
    /\ RuleOf(rules, rule_call.rule_id).operator = "OR"
    /\ SatisfiedConditions(RuleOf(rules, rule_call.rule_id), rule_call.market_data) = {1}
    /\ "RSI_14" \in DOMAIN rule_call.market_data
    /\ rule_call.result = "SELL"

\* an operand that names an indicator key the snapshot does not hold
AbsentOperand(expr, d) ==
    /\ expr.kind = "key"
    /\ Float(expr.name) = <<>>
    /\ IndicatorKey(expr.name) \notin DOMAIN d
ComparisonOps == {"==", "!=", "<", "<=", ">", ">=", "CROSS_ABOVE", "CROSS_BELOW"}
DataGaps(rule, d) ==
    {i \in 1..Len(rule.conditions) :
        \/ AbsentOperand(rule.conditions[i].left, d)
        \/ AbsentOperand(rule.conditions[i].right, d)}

\* C13: a condition with an operand whose key the snapshot lacks is false
\* under every operator; an AND rule that contains it evaluates to NONE, and
\* an OR rule to its action when another condition is satisfied.
C13_MissingKeyFailsClosed ==
    \A e \in Registered, d \in Snapshots :
        LET gaps == DataGaps(e.rule, d) IN
        /\ \A i \in gaps, op \in ComparisonOps :
              ~ConditionEvaluate([e.rule.conditions[i] EXCEPT !.op = op], d)
        /\ (gaps # {} /\ e.rule.operator = "AND") =>
              EvaluateResult(rules, e.id, d) = "NONE"
        /\ (gaps # {} /\ e.rule.operator = "OR"
                      /\ SatisfiedConditions(e.rule, d) \ gaps # {}) =>
              EvaluateResult(rules, e.id, d) = e.rule.action

\* C13 witness: evaluate answered SELL for the OR rule on a snapshot without
\* EMA_21 whose RSI_14 satisfies the second condition
C13_Witness ==
    /\ rule_call.op = "evaluate"
    /\ RuleOf(rules, rule_call.rule_id) # None
    /\ RuleOf(rules, rule_call.rule_id).operator = "OR"
    /\ DataGaps(RuleOf(rules, rule_call.rule_id), rule_call.market_data) = {1}
    /\ "EMA_9" \in DOMAIN rule_call.market_data
    /\ rule_call.result = "SELL"

\* C14: evaluate_all returns one entry per registered rule id, and each
\* entry's value is what evaluate returns for that id on the same snapshot.
C14_EvaluateAllMatchesEvaluate ==
    rule_call.op = "evaluate_all" =>
        /\ Len(rule_call.result) = Len(rules)
        /\ {rule_call.result[i].id : i \in 1..Len(rule_call.result)} =
              {e.id : e \in Registered}
        /\ \A i \in 1..Len(rule_call.result) :
              rule_call.result[i].signal =
                  EvaluateResult(rules, rule_call.result[i].id, rule_call.market_data)

\* the sources that are not a rule: no JSON at all, or a condition that
\* lacks its left operand
MalformedSources == {"no_left", "invalid json"}

-----------------------------------------------------------------------------
(* The bus used on its own by a caller that subscribes callbacks (BusSpec) *)

BusNext ==
    \/ \E t \in BusEventTypes, callback \in TestCallbacks : Subscribe(t, callback)
    \/ \E event \in BusEvents : Publish(event)
    \/ Consume

BusSpec == Init /\ [][BusNext]_vars

\* C16: a get() step returns the oldest event of the bus and removes it, so
\* size() drops by one; on an empty bus it returns None and changes nothing.
\* A put() step adds its event behind the events already held, so the oldest
\* event is the one published first.
C16_ConsumeOldestFirst ==
    [][ /\ bus_call'.op = "get" =>
              IF queue = <<>>
              THEN bus_call'.result = None /\ queue' = queue
              ELSE /\ bus_call'.result = queue[1]
                   /\ queue' = SubSeq(queue, 2, Len(queue))
                   /\ Len(queue') = Len(queue) - 1
        /\ bus_call'.op = "put" =>
              \E k \in 0..1 :
                  queue' = Append(SubSeq(queue, k + 1, Len(queue)), bus_call'.event)
      ]_vars

\* C16 witness: get() returned a signal and left the market event that was
\* published after it
C16_Witness ==
    /\ bus_call.op = "get"
    /\ bus_call.result.type = "SIGNAL"
    /\ Len(queue) = 1
    /\ queue[1].type = "MARKET"

\* C17: the bus never holds more events than its capacity; a put() step onto
\* a full bus drops exactly the oldest event and adds the new one at the tail,
\* and onto a bus that is not full it only adds the new one at the tail.
C17_CapacityBounded ==
    /\ [](Len(queue) <= MaxSize)
    /\ [][ bus_call'.op = "put" =>
              queue' = IF Len(queue) = MaxSize
                       THEN Append(SubSeq(queue, 2, Len(queue)), bus_call'.event)
                       ELSE Append(queue, bus_call'.event) ]_vars

\* C17 witness: the bus is full right after a put(), and the one subscribed
\* callback has recorded more signals than the bus can hold
C17_Witness ==
    /\ bus_call.op = "put"
    /\ Len(queue) = MaxSize
    /\ subscribers["SIGNAL"] = <<"callback">>
    /\ Len(received) > MaxSize
    /\ \A i \in 1..Len(queue) : queue[i].type = "SIGNAL"

\* the invocations a put() of the event makes, given the subscriptions
Invocations(subs, event) ==
    [i \in 1..Len(subs[event.type]) |->
        [callback |-> subs[event.type][i], event |-> event]]

\* C18: a put() step enqueues its event and invokes, once per subscription
\* and in subscription order, the callbacks subscribed for the event's type
\* before the step, and no other callback; get() and subscribe() steps invoke
\* no callback.
C18_PublishInvokesSubscribers ==
    [][ /\ bus_call'.op = "put" =>
              /\ queue'[Len(queue')] = bus_call'.event
              /\ received' = received \o Invocations(subscribers, bus_call'.event)
        /\ bus_call'.op \in {"get", "subscribe"} => received' = received
      ]_vars

\* C18 witness: a signal was published with two callbacks subscribed for
\* SIGNAL and one for MARKET, and exactly the two were invoked, in the order
\* of their subscription
C18_Witness ==
    /\ bus_call.op = "put"
    /\ bus_call.event.type = "SIGNAL"
    /\ subscribers["SIGNAL"] = <<"callback_2", "callback">>
    /\ subscribers["MARKET"] # <<>>
    /\ received = Invocations(subscribers, bus_call.event)

\* C19: a put() step with a failing callback among the subscriptions still
\* invokes every callback of the type, keeps the event enqueued, returns
\* without an exception and leaves the lock released.
C19_HandlerFailureCaught ==
    [][ ( /\ bus_call'.op = "put"
          /\ \E i \in 1..Len(subscribers[bus_call'.event.type]) :
                subscribers[bus_call'.event.type][i] = "failing_callback" ) =>
            /\ Len(received') = Len(received) + Len(subscribers[bus_call'.event.type])
            /\ \A i \in 1..Len(subscribers[bus_call'.event.type]) :
                  received'[Len(received) + i].callback =
                      subscribers[bus_call'.event.type][i]
            /\ \E i \in 1..Len(queue') : queue'[i] = bus_call'.event
            /\ bus_call'.raised = FALSE
            /\ ~lock'
      ]_vars

\* C19 witness: a signal was published with the failing callback subscribed
\* first and another callback after it; both were invoked and put() returned
C19_Witness ==
    /\ bus_call.op = "put"
    /\ ~bus_call.raised
    /\ subscribers[bus_call.event.type] = <<"failing_callback", "callback">>
    /\ Len(received) = 2
    /\ received[1].callback = "failing_callback"
    /\ received[2].callback = "callback"
    /\ ~lock

-----------------------------------------------------------------------------
(* Paper execution called directly (PaperSpec) *)

PaperNext ==
    \E order \in PaperOrders, chance \in PartialFillChances, draw \in {0, 5, 7, 9} :
        PaperExecuteOrder(order, chance, draw)

PaperSpec == Init /\ [][PaperNext]_vars

\* C21: the Fill of an order with a positive price has a price at or above
\* the order's price for a BUY and at or below it for a SELL.
C21_SlippageAgainstTaker ==
    (paper_call.op = "execute_order" /\ paper_call.order.price > 0) =>
        IF paper_call.order.side = "BUY"
        THEN paper_call.fill.price >= paper_call.order.price * PriceScale
        ELSE paper_call.fill.price <= paper_call.order.price * PriceScale

\* C21 witness: a SELL order at price 200 was filled below 200
C21_Witness ==
    /\ paper_call.op = "execute_order"
    /\ paper_call.order.side = "SELL"
    /\ paper_call.order.price = 200
    /\ paper_call.fill.price < 200 * PriceScale

\* C22: the Fill of an order with quantity q > 0 has a quantity f with
\* 0 < f <= q and a commission >= 0, and is_partial exactly when f < q; with
\* a partial-fill chance of 0, f = q and is_partial is false; a BUY order for
\* 10 at price 100 under chance 0 is filled with 10 at a price >= 100.
C22_FillQuantityWithinOrder ==
    (paper_call.op = "execute_order" /\ paper_call.order.quantity > 0) =>
        LET q == paper_call.order.quantity
            fill == paper_call.fill
        IN  /\ fill.type = "FILL"
            /\ 0 < fill.quantity /\ fill.quantity <= q
            /\ fill.commission >= 0
            /\ fill.is_partial <=> (fill.quantity < q)
            /\ paper_call.chance = 0 => (fill.quantity = q /\ ~fill.is_partial)
            /\ (paper_call.chance = 0 /\ paper_call.order.side = "BUY" /\ q = 10
                  /\ paper_call.order.price = 100) =>
                  (fill.quantity = 10 /\ fill.price >= 100 * PriceScale)

\* C22 witness: an order for 20 was filled partially, with 18
C22_Witness ==
    /\ paper_call.op = "execute_order"
    /\ paper_call.order.quantity = 20
    /\ paper_call.fill.quantity = 18
    /\ paper_call.fill.is_partial

-----------------------------------------------------------------------------
(* Fills applied to the position ledger and the risk counters (LedgerSpec) *)

LedgerNext ==
    \/ Start
    \/ \E order \in LedgerOrders, draw \in PartialDraws : HandleOrder(order, draw)
    \/ RegisterStrategy(1, EngineConfig)
    \/ ResetDaily(1)

LedgerSpec == Init /\ [][LedgerNext]_vars

\* a step in which a Fill is published and handled by the one FILL subscriber
FillStep ==
    /\ bus_call'.op = "put_fill"
    /\ bus_call'.n # Get(bus_call, "n", 0)
    /\ Len(subscribers["FILL"]) = 1
SignedQuantity(call) ==
    IF call.order.side = "BUY" THEN call.event.quantity ELSE 0 - call.event.quantity

\* C23: the position ledger changes only in a step that handles a Fill, and
\* handling a Fill adds the filled quantity to its symbol's entry for a BUY
\* and subtracts it for a SELL, leaving every other entry as it was.
C23_LedgerSignedQuantity ==
    [][ /\ positions' # positions => bus_call'.n # Get(bus_call, "n", 0)
        /\ FillStep =>
              positions' = [positions EXCEPT ![bus_call'.event.symbol] =
                                                 @ + SignedQuantity(bus_call')]
      ]_vars

\* the loss a Fill realises: a SELL fill that follows a BUY fill of the same
\* strategy and symbol at a higher price loses the price difference on the
\* quantity sold
RealisedLoss(call) ==
    IF /\ call.prev # None
       /\ call.prev.order.side = "BUY" /\ call.order.side = "SELL"
       /\ call.prev.order.strategy_id = call.order.strategy_id
       /\ call.prev.event.symbol = call.event.symbol
       /\ call.prev.event.quantity >= call.event.quantity
       /\ call.prev.event.price > call.event.price
    THEN (call.prev.event.price - call.event.price) * call.event.quantity
    ELSE 0

\* C24: handling a Fill of a registered strategy increases its trade_count by
\* one, and increases its daily_loss when the Fill realises a loss.
C24_FillFeedsRiskCounters ==
    [][ (FillStep /\ bus_call'.order.strategy_id \in DOMAIN configs) =>
          LET s == bus_call'.order.strategy_id IN
          /\ trade_count'[s] = trade_count[s] + 1
          /\ RealisedLoss(bus_call') > 0 => daily_loss'[s] > daily_loss[s]
      ]_vars

-----------------------------------------------------------------------------
(* More claims about the risk gate called directly (RiskSpec) *)

LimitsReached(s) ==
    {k \in {"loss", "trades"} :
        \/ k = "loss"   /\ daily_loss[s] >= configs[s].max_daily_loss
        \/ k = "trades" /\ trade_count[s] >= configs[s].max_trades_per_day}

\* C25: for a registered strategy that has reached both limits the block
\* carries the daily-loss reason, and for one that has reached neither the
\* signal is allowed.
C25_ChecksInFixedOrder ==
    \A signal \in SignalEvents :
        LET s == signal.strategy_id IN
        s \in DOMAIN configs =>
            /\ LimitsReached(s) = {"loss", "trades"} =>
                  /\ Blocked(ValidateSignal(signal))
                  /\ ValidateSignal(signal).reason.text = "Daily loss limit reached: "
            /\ LimitsReached(s) = {} => ValidateSignal(signal) = None

\* C25 witness: validate_signal answered with the daily-loss reason for a
\* strategy that has reached both of its limits
C25_Witness ==
    /\ verdict # None
    /\ verdict.signal.strategy_id \in DOMAIN configs
    /\ LimitsReached(verdict.signal.strategy_id) = {"loss", "trades"}
    /\ verdict.result = ValidateSignal(verdict.signal)
    /\ verdict.result.reason.text = "Daily loss limit reached: "

\* C26: every RiskBlockEvent validate_signal returns carries the signal it
\* was called with and a non-empty reason.
C26_BlockCarriesSignal ==
    (verdict # None /\ Blocked(verdict.result)) =>
        /\ verdict.result.signal = verdict.signal
        /\ verdict.result.reason.text # ""

\* C27: a register_strategy(id, config) step leaves the id with that config
\* and with both counters at 0, and every signal of the id is allowed after it.
C27_RegisterResetsCounters ==
    [][ \A s \in Strategies, c \in RiskConfigs :
          RegisterStrategy(s, c) =>
              /\ configs'[s] = c
              /\ daily_loss'[s] = 0
              /\ trade_count'[s] = 0
              /\ \A signal \in SignalEvents :
                    signal.strategy_id = s => (ValidateSignal(signal) = None)'
      ]_vars

\* C27 witness: a strategy was blocked at a daily loss of 1, so under a
\* limit of 1, and now has the limit 2 and zeroed counters: it was registered
\* again, and its signal is allowed
C27_Witness ==
    /\ verdict # None
    /\ Blocked(verdict.result)
    /\ verdict.result.reason = [text |-> "Daily loss limit reached: ", arg |-> 1]
    /\ LET s == verdict.signal.strategy_id IN
         /\ configs[s].max_daily_loss = 2
         /\ daily_loss[s] = 0 /\ trade_count[s] = 0
         /\ ValidateSignal(verdict.signal) = None

\* C28: a validate_signal step leaves the configs, daily_loss and
\* trade_count of every strategy as they were; a step in which a counter of
\* a strategy drops is no validate_signal step and zeroes both its counters.
C28_ValidateChangesNothing ==
    [][ /\ \A signal \in PublishedSignals :
              Validate(signal) => UNCHANGED <<configs, daily_loss, trade_count>>
        /\ \A s \in DOMAIN daily_loss :
              (daily_loss'[s] < daily_loss[s] \/ trade_count'[s] < trade_count[s]) =>
                  (daily_loss'[s] = 0 /\ trade_count'[s] = 0 /\ verdict' = verdict)
      ]_vars

\* C28 witness: validate_signal blocked a strategy at its trade limit and its
\* counters still stand where they stood: trade_count at the count the
\* block reports, daily_loss at 1
C28_Witness ==
    /\ verdict # None
    /\ Blocked(verdict.result)
    /\ verdict.result.reason.text = "Max trades per day reached: "
    /\ trade_count[verdict.signal.strategy_id] = verdict.result.reason.arg
    /\ daily_loss[verdict.signal.strategy_id] = 1

-----------------------------------------------------------------------------
(* Order status (KillSpec, ExecSpec) *)

TerminalStatus == {"FILLED", "REJECTED", "CANCELED"}

\* the status changes the life cycle allows, a kill command among them
AllowedTransition(old, new) ==
    \/ <<old, new>> \in {<<"CREATED", "VALIDATED">>, <<"VALIDATED", "SENT">>,
                         <<"SENT", "ACK">>, <<"ACK", "PARTIAL">>, <<"ACK", "FILLED">>,
                         <<"ACK", "REJECTED">>, <<"ACK", "CANCELED">>,
                         <<"PARTIAL", "FILLED">>}
    \/ old \notin TerminalStatus /\ new = "CANCELED"

C30_StatusTracksExecution ==
    /\ \A i \in 1..Len(placed) :
          placed[i].status \in
              (IF placed[i].response = "success" THEN {"SENT", "ACK"} ELSE {"REJECTED"})
    /\ \A j \in 1..Len(fills) :
          fills[j].status = (IF fills[j].fill.is_partial THEN "PARTIAL" ELSE "FILLED")

-----------------------------------------------------------------------------
(* The Fill of live execution (ExecSpec) *)

\* C31: every Fill of live execution was built from a status answer that
\* reports the order FILLED or PARTIAL with a filled quantity above 0: none
\* from an answer that is pending, an error or reports quantity 0; and the
\* Fill's quantity is above 0 and at most the ordered quantity.
C31_FillOnlyOnObservedFill ==
    \A j \in 1..Len(fills) :
        /\ Get(fills[j].observed, "status", "") \in {"FILLED", "PARTIAL"}
        /\ Get(fills[j].observed, "filledqty", 0) > 0
        /\ 0 < fills[j].fill.quantity
        /\ fills[j].fill.quantity <= fills[j].ordered

-----------------------------------------------------------------------------
(* Crossover conditions over consecutive ticks (CrossSpec) *)

CrossNext ==
    \/ \E r \in TestRuleIds, src \in CrossJsons : RegisterRule(r, src)
    \/ \E r \in TestRuleIds, d \in CrossSnapshots : Evaluate(r, d)

CrossSpec == Init /\ [][CrossNext]_vars

\* left - right of a condition on a tick that holds both operands
Difference(c, d) == ResolveValue(c.left, d)[1] - ResolveValue(c.right, d)[1]

\* a condition crossed between the previous tick and this one: the sign of
\* left - right went from not positive to positive (CROSS_ABOVE), or from not
\* negative to negative (CROSS_BELOW)
Crossed(c, prev, now) ==
    CASE Upper(c.op) = "CROSS_ABOVE" -> Difference(c, prev) <= 0 /\ Difference(c, now) > 0
      [] Upper(c.op) = "CROSS_BELOW" -> Difference(c, prev) >= 0 /\ Difference(c, now) < 0
      [] OTHER -> TRUE

\* C32: when the same AND rule is evaluated on two consecutive ticks, it
\* fires on the second only if each of its CROSS_ABOVE (CROSS_BELOW)
\* conditions saw left - right change sign between the two ticks; with
\* left > right on both ticks a CROSS_ABOVE rule does not fire again.
C32_CrossNeedsSignChange ==
    [][ ( /\ rule_call.op = "evaluate"
          /\ rule_call'.op = "evaluate"
          /\ rule_call'.rule_id = rule_call.rule_id
          /\ RuleOf(rules, rule_call.rule_id) # None
          /\ rule_call'.result # "NONE" )
        => LET rule == RuleOf(rules, rule_call.rule_id) IN
           \A i \in 1..Len(rule.conditions) :
               Crossed(rule.conditions[i], rule_call.market_data, rule_call'.market_data)
      ]_vars

-----------------------------------------------------------------------------
(* Signals of an injected market event (Spec) *)

\* the market events inject_market_data builds
InjectedEvents ==
    {MarketEvent(us[1], us[2], "SBIN", p, 1000) : p \in Prices, us \in Injected}

\* the registered rules whose decision on the tick of market event m is not NONE
FiringRules(m) ==
    {i \in 1..Len(rules) : EvaluateResult(rules, rules[i].id, MarketData(m)) # "NONE"}

\* the events handlers handed to the bus in the step for market event m
HandedToBus(by, m) ==
    {i \in 1..Len(nested') : nested'[i].by = by /\ nested'[i].cause = m}

\* C33: the step that injects a market event into a started engine publishes
\* one SignalEvent per registered rule whose decision is not NONE, with the
\* market event's user_id, strategy_id and symbol and that rule's action as
\* signal, and each publish completes; no other event is published, so with
\* no rule firing the step publishes nothing.
C33_OneSignalPerFiringRule ==
    [][ \A m \in InjectedEvents :
          ( /\ Len(subscribers["MARKET"]) = 1
            /\ ~lock
            /\ queue' = AppendBounded(queue, m) )
          => /\ Cardinality(HandedToBus("_on_market_event", m)) =
                   Cardinality(FiringRules(m))
             /\ \A i \in FiringRules(m) :
                   \E k \in HandedToBus("_on_market_event", m) :
                       nested'[k].event =
                           SignalEvent(m.user_id, m.strategy_id, m.symbol,
                                       EvaluateResult(rules, rules[i].id, MarketData(m)))
             /\ \A k \in 1..Len(nested') : nested'[k].by = "_on_market_event"
             /\ ~lock'
             /\ handled' = handled
      ]_vars

-----------------------------------------------------------------------------
(* Starting in the background and stopping (LifeSpec) *)

LifeNext ==
    \/ StartEngine
    \/ ScheduledStart
    \/ Stop
    \/ EventLoop
    \/ \E p \in Prices, us \in Injected :
           InjectMarketData("SBIN", p, 1000, us[1], us[2])

\* The event loop runs every task that is ready: a start() task that was
\* created begins, and a loop task whose sleep is over is resumed.
LifeSpec ==
    Init /\ [][LifeNext]_vars /\ WF_vars(ScheduledStart) /\ WF_vars(EventLoop)

\* the engine is stopped and no _event_loop task is left
Terminated == ~running /\ loop_sleeping = 0 /\ loop_blocked = 0

\* C34: once stop() has been called, and start_engine is not called again,
\* the engine is eventually stopped for good with every _event_loop task
\* ended, whether the start() tasks created before the stop() began before
\* or after it.
C34_StopTerminates == [](stop_called => <>[](stop_called => Terminated))

-----------------------------------------------------------------------------
(* Risk state per strategy (RiskSpec) *)

\* strategy b has the same config and counters before and after the step
SameRiskState(b) ==
    /\ (b \in DOMAIN configs') = (b \in DOMAIN configs)
    /\ (b \in DOMAIN daily_loss') = (b \in DOMAIN daily_loss)
    /\ (b \in DOMAIN trade_count') = (b \in DOMAIN trade_count)
    /\ b \in DOMAIN configs => configs'[b] = configs[b]
    /\ b \in DOMAIN daily_loss => daily_loss'[b] = daily_loss[b]
    /\ b \in DOMAIN trade_count => trade_count'[b] = trade_count[b]

\* the step is a record_trade, record_loss or reset_daily call for strategy a
CounterCall(a) ==
    \/ RecordTrade(a)
    \/ \E l \in LossAmounts : RecordLoss(a, l)
    \/ ResetDaily(a)

\* C35: a register_strategy, record_trade, record_loss or reset_daily step
\* for strategy a leaves the config, daily_loss and trade_count of every
\* other strategy as they were, and with them the answer of validate_signal
\* for every signal of another strategy; record_trade, record_loss and
\* reset_daily for an id that is not registered change no risk state.
C35_RiskStatePerStrategy ==
    [][ \A a \in Strategies :
          /\ ((\E c \in RiskConfigs : RegisterStrategy(a, c)) \/ CounterCall(a)) =>
                /\ \A b \in Strategies \ {a} : SameRiskState(b)
                /\ \A signal \in SignalEvents :
                      signal.strategy_id # a =>
                          (ValidateSignal(signal))' = ValidateSignal(signal)
          /\ (CounterCall(a) /\ a \notin DOMAIN configs) =>
                UNCHANGED <<configs, daily_loss, trade_count>>
      ]_vars

\* C35 witness: strategy 1 has reached its trade limit and never lost,
\* strategy 2 has lost and never traded, and the last validate_signal call
\* allowed a signal of strategy 2
C35_Witness ==
    /\ {1, 2} \subseteq DOMAIN configs
    /\ trade_count[1] >= configs[1].max_trades_per_day
    /\ daily_loss[1] = 0
    /\ trade_count[2] = 0
    /\ daily_loss[2] > 0
    /\ verdict # None
    /\ verdict.signal.strategy_id = 2
    /\ verdict.result = None

-----------------------------------------------------------------------------
(* Orders against the trade limit (GateSpec): every strategy is registered *)
(* once and its counters are not reset afterwards, so the whole run after  *)
(* the registration lies between two resets.                               *)

GateNext ==
    \/ Start
    \/ \E s \in Strategies \ DOMAIN configs : RegisterStrategy(s, EngineConfig)
    \/ \E signal \in PublishedSignals, draw \in PartialDraws : HandleSignal(signal, draw)
    \/ \E order \in LedgerOrders, draw \in PartialDraws : HandleOrder(order, draw)

GateSpec == Init /\ [][GateNext]_vars

\* the orders created for strategy s that are on the bus
OrdersCreated(s) ==
    {i \in 1..Len(queue) : queue[i].type = "ORDER" /\ queue[i].strategy_id = s}

====
